---- MODULE Spec2Model ----
(***************************************************************************)
(* Model of the tool-augmented agent of src/agent_with_custom_history.py   *)
(* and its driver in src/main.py:                                          *)
(*   - ConversationSummaryBufferMessageHistory (bounded, summarised        *)
(*     per-session memory),                                                *)
(*   - QueueCallbackHandler (the streaming relay between the model turn    *)
(*     and the HTTP consumer),                                             *)
(*   - execute_tool and CustomAgentExecutor.invoke (the bounded loop),     *)
(*   - token_generator (the consumer/driver).                              *)
(*                                                                         *)
(* Text is modelled as a sequence of strings, Python's None as the empty   *)
(* sequence of an option (<<>> = None, <<v>> = a value v).                 *)
(***************************************************************************)
EXTENDS Integers, Sequences, FiniteSets, TLC

VARIABLES
    k,                  \* CustomAgentExecutor.k, handed to every memory
    max_iterations,     \* CustomAgentExecutor.max_iterations
    memory_map,         \* session id -> [messages, k]
    adds,               \* number of direct add_messages/clear calls (SpecMem)
    lastAdd,            \* record of the most recent add_messages call
    added,              \* session id -> what was added since the last clear
    requests,           \* number of /invoke requests received so far
    session_id,         \* session of the current invocation
    input,              \* input text of the current invocation
    pc,                 \* position of the invoke task
    count,              \* invoke's loop counter
    turns,              \* model turns started by the current invocation
    tokens,             \* chunks the model has streamed so far
    outputs,            \* stream()'s accumulator of the current turn
    tool_calls,         \* the requests returned by stream()
    slots,              \* one execute_tool task per request
    order,              \* request indices in order of completion
    scratchpad,         \* agent_scratchpad
    final_answer,       \* option: the captured answer text
    final_answer_call,  \* option: the captured final_answer request
    result,             \* option: the payload invoke returned
    error,              \* the exception invoke raised, "" if none
    commits,            \* argument lists of this invocation's add_messages calls
    queue,              \* the asyncio.Queue of the relay
    final_answer_seen,  \* QueueCallbackHandler.final_answer_seen
    sent,               \* everything enqueued on the relay, in order
    cpc,                \* position of the consumer / driver
    yielded,            \* what the relay's iterator yielded to the driver
    emitted,            \* option: the scratchpad trace the driver emitted
    fn_in,              \* option: the arguments of a function called on its own
    fn_out,             \* option: what that call produced
    heap,               \* the list objects of one memory, by identity
    self_messages,      \* identity of the list the memory's messages field holds
    tasks               \* concurrent invocations of one session, by task

vars == <<k, max_iterations, memory_map, adds, lastAdd, added, requests, session_id,
          input, pc, count, turns, tokens, outputs, tool_calls, slots, order,
          scratchpad, final_answer, final_answer_call, result, error, commits,
          queue, final_answer_seen, sent, cpc, yielded, emitted, fn_in, fn_out,
          heap, self_messages, tasks>>

memVars == <<k, max_iterations, memory_map, adds, lastAdd, added>>

invVars == <<requests, session_id, input, pc, count, turns, tokens, outputs,
             tool_calls, slots, order, scratchpad, final_answer,
             final_answer_call, result, error, commits>>

relayVars == <<queue, final_answer_seen, sent, cpc, yielded, emitted>>

fnVars == <<fn_in, fn_out>>

concVars == <<heap, self_messages, tasks>>

(***************************************************************************)
(* Bounds of the model.                                                    *)
(***************************************************************************)
MaxK == 2
MaxN == 2
MaxTokens == 2
MaxRequests == 2
MaxNew == 2
MaxAdds == 2

(***************************************************************************)
(* Messages.                                                               *)
(***************************************************************************)
SystemMessage(content) == [type |-> "System", content |-> content]
HumanMessage(content) == [type |-> "Human", content |-> content]
AIMessage(content) == [type |-> "AI", content |-> content]

NoAnswerFound == <<"No answer found">>

FallbackPayload == [answer |-> NoAnswerFound, tools_used |-> <<>>]

\* Python truthiness of an Optional[str]: None and "" are both falsy.
Truthy(opt) == opt # <<>> /\ opt[1] # <<>>

(***************************************************************************)
(* Python list slices.                                                     *)
(***************************************************************************)
\* lst[:n] for n >= 0
SliceTo(lst, n) == SubSeq(lst, 1, IF n < Len(lst) THEN n ELSE Len(lst))

\* lst[-n:] for n >= 0; -0 is 0, so lst[-0:] is the whole list
SliceLast(lst, n) ==
    IF n = 0 \/ n >= Len(lst) THEN lst
    ELSE SubSeq(lst, Len(lst) - n + 1, Len(lst))

\* "\n".join(parts)
RECURSIVE JoinLines(_)
JoinLines(parts) ==
    IF parts = <<>> THEN <<>>
    ELSE IF Len(parts) = 1 THEN parts[1]
    ELSE parts[1] \o <<"\n">> \o JoinLines(Tail(parts))

\* The summarisation model: its reply is determined by the two texts the
\* prompt is formatted with.
Summarize(existing_summary_text, old_messages_text) ==
    <<"summary[">> \o existing_summary_text \o <<"|">> \o old_messages_text \o <<"]">>

(***************************************************************************)
(* ConversationSummaryBufferMessageHistory.add_messages                    *)
(***************************************************************************)
\* the guard of the eviction branch
Overflows_ge(len, bound) == len >= bound

Overflows(len, bound) == len > bound

\* the summary is stored behind the tail
AttachSummary_last(new_summary, kept) == kept \o <<SystemMessage(new_summary)>>

\* [SystemMessage(content=new_summary.content)] + self.messages
AttachSummary(new_summary, kept) == <<SystemMessage(new_summary)>> \o kept

\* The effect of add_messages(messages) on a memory mem when the
\* summarisation model answers (llm_ok) or raises (~llm_ok): the stored
\* list afterwards, the messages evicted, the number of model calls made
\* and whether the call raised.
AddMessages(mem, messages, llm_ok) ==
    LET has_summary == Len(mem.messages) > 0 /\ mem.messages[1].type = "System"
        existing_summary == IF has_summary THEN <<mem.messages[1]>> ELSE <<>>
        popped == IF has_summary THEN Tail(mem.messages) ELSE mem.messages
        extended == popped \o messages
        evicts == Overflows(Len(extended), mem.k)
        num_to_drop == Len(extended) - mem.k
        old_messages == IF evicts THEN <<SliceTo(extended, num_to_drop)>> ELSE <<>>
        kept == IF evicts THEN SliceLast(extended, mem.k) ELSE extended
        existing_summary_text ==
            IF existing_summary # <<>> THEN existing_summary[1].content ELSE <<>>
        old_messages_text ==
            JoinLines([i \in 1..Len(old_messages[1]) |-> old_messages[1][i].content])
        new_summary == Summarize(existing_summary_text, old_messages_text)
    IN  IF old_messages = <<>>
        THEN [messages |-> kept, evicted |-> <<>>, llm_calls |-> 0, raised |-> FALSE]
        ELSE IF llm_ok
        THEN [messages |-> AttachSummary(new_summary, kept),
              evicted |-> old_messages[1], llm_calls |-> 1, raised |-> FALSE]
        ELSE [messages |-> kept,
              evicted |-> old_messages[1], llm_calls |-> 1, raised |-> TRUE]

\* ConversationSummaryBufferMessageHistory(llm, k)
NewMemory(bound) == [messages |-> <<>>, k |-> bound]

NoAdd == [session |-> "", new |-> <<>>, evicted |-> <<>>, llm_calls |-> 0, raised |-> FALSE]

AddRecord(s, new, out) ==
    [session |-> s, new |-> new, evicted |-> out.evicted,
     llm_calls |-> out.llm_calls, raised |-> out.raised]

NonSummary(messages) == SelectSeq(messages, LAMBDA m : m.type # "System")

(***************************************************************************)
(* The session map, CustomAgentExecutor.get_memory                         *)
(***************************************************************************)
SessionIds == {"s1"}

\* the session ids of the clients when there are two of them
AllSessions == {"s1", "s2"}

NoSessions == [s \in {} |-> NewMemory(0)]

\* every reference builds a new memory
get_memory_new(map, s, bound) ==
    [t \in (DOMAIN map) \cup {s} |-> IF t = s THEN NewMemory(bound) ELSE map[t]]

\* memory_map after get_memory(s): the memory is created on first reference
get_memory(map, s, bound) ==
    IF s \in DOMAIN map THEN map
    ELSE [t \in (DOMAIN map) \cup {s} |-> IF t = s THEN NewMemory(bound) ELSE map[t]]

SetMessages(map, s, messages) == [map EXCEPT ![s].messages = messages]

\* What a session's memory has been handed since its last clear: the
\* messages of all its add_messages calls, in order, and whether one of
\* those calls raised.
NoHistory == [messages |-> <<>>, failed |-> FALSE]

NoAdded == [s \in AllSessions |-> NoHistory]

Recorded(hist, s, messages, out) ==
    [hist EXCEPT ![s] = [messages |-> @.messages \o messages,
                         failed |-> @.failed \/ out.raised]]

\* no function is being called on its own
NoCall ==
    /\ fn_in = <<>>
    /\ fn_out = <<>>

\* the invoke tasks that may run at the same time
TaskIds == {"A", "B"}

NoTask ==
    [pc |-> "idle", runs |-> 0, overlapped |-> FALSE, chat_history |-> 0,
     count |-> 0, handed |-> <<>>]

\* no concurrent invocations are being followed
NoTasks ==
    /\ heap = <<>>
    /\ self_messages = 0
    /\ tasks = [t \in TaskIds |-> NoTask]

(***************************************************************************)
(* The state of the process before any request.                            *)
(***************************************************************************)
NoInvocation ==
    /\ requests = 0
    /\ session_id = ""
    /\ input = <<>>
    /\ pc = "none"
    /\ count = 0
    /\ turns = 0
    /\ tokens = 0
    /\ outputs = <<>>
    /\ tool_calls = <<>>
    /\ slots = <<>>
    /\ order = <<>>
    /\ scratchpad = <<>>
    /\ final_answer = <<>>
    /\ final_answer_call = <<>>
    /\ result = <<>>
    /\ error = ""
    /\ commits = <<>>

NoRelay ==
    /\ queue = <<>>
    /\ final_answer_seen = FALSE
    /\ sent = <<>>
    /\ cpc = "none"
    /\ yielded = <<>>
    /\ emitted = <<>>

(***************************************************************************)
(* The memory on its own: any sequence of add_messages and clear calls     *)
(* on one session's memory.                                                *)
(***************************************************************************)
NewMessages == {HumanMessage(<<"q">>), AIMessage(<<"a">>)}

RECURSIVE SeqsUpTo(_, _)
SeqsUpTo(S, n) ==
    IF n = 0 THEN {<<>>}
    ELSE LET shorter == SeqsUpTo(S, n - 1)
         IN  shorter \cup {Append(q, x) : q \in shorter, x \in S}

InitMem ==
    /\ k \in 0..MaxK
    /\ max_iterations = 0
    /\ memory_map = get_memory(NoSessions, "s1", k)
    /\ adds = 0
    /\ lastAdd = NoAdd
    /\ added = NoAdded
    /\ NoInvocation
    /\ NoRelay
    /\ NoCall
    /\ NoTasks

MemAdd(s, messages, llm_ok) ==
    /\ UNCHANGED <<fnVars, concVars>>
    /\ adds < MaxAdds
    /\ LET out == AddMessages(memory_map[s], messages, llm_ok)
       IN  /\ memory_map' = SetMessages(memory_map, s, out.messages)
           /\ lastAdd' = AddRecord(s, messages, out)
           /\ added' = Recorded(added, s, messages, out)
    /\ adds' = adds + 1
    /\ UNCHANGED <<k, max_iterations>>
    /\ UNCHANGED invVars
    /\ UNCHANGED relayVars

MemClear(s) ==
    /\ UNCHANGED <<fnVars, concVars>>
    /\ adds < MaxAdds
    /\ memory_map[s].messages # <<>>
    /\ memory_map' = SetMessages(memory_map, s, <<>>)
    /\ lastAdd' = NoAdd
    /\ added' = [added EXCEPT ![s] = NoHistory]
    /\ adds' = adds + 1
    /\ UNCHANGED <<k, max_iterations>>
    /\ UNCHANGED invVars
    /\ UNCHANGED relayVars

NextMem ==
    \/ \E messages \in SeqsUpTo(NewMessages, MaxNew), llm_ok \in BOOLEAN :
           MemAdd("s1", messages, llm_ok)
    \/ MemClear("s1")

SpecMem == InitMem /\ [][NextMem]_vars

(***************************************************************************)
(* Stream tokens and the relay, QueueCallbackHandler                       *)
(***************************************************************************)
\* names the model may put in a tool request; serpapi is announced by the
\* prompt ("web search") but is not in the tools list
ToolNames == {"add", "final_answer", "serpapi"}

\* name2tool: the registry built from the tools list
name2tool == {"add", "final_answer"}

\* a chunk without tool-call data; 0 stands for the absent id of a delta
ContentToken == [kind |-> "content", id |-> 0, name |-> "", arguments |-> <<>>]

\* the first delta of a tool call carries its id and name
ToolStart(id, name) == [kind |-> "tool_call", id |-> id, name |-> name, arguments |-> <<>>]

\* the following deltas carry an argument fragment only
ArgFragment == [kind |-> "tool_call", id |-> 0, name |-> "", arguments |-> <<"x">>]

\* The chunks the model may stream next.  The API numbers the tool calls
\* of an invocation, id being the number of the call a delta starts, and
\* it sends argument fragments only for a call it has started.
StreamTokens(id, started) ==
    {ContentToken} \cup {ToolStart(id, name) : name \in ToolNames}
        \cup (IF started THEN {ArgFragment} ELSE {})

STEP_END == [kind |-> "marker", id |-> 0, name |-> "<<STEP_END>>", arguments |-> <<>>]

DONE == [kind |-> "marker", id |-> 0, name |-> "<<DONE>>", arguments |-> <<>>]

IsMarker(item) == item \in {STEP_END, DONE}

\* kwargs.get("chunk") of a callback that was given no chunk: None
NoChunk == [kind |-> "none", id |-> 0, name |-> "", arguments |-> <<>>]

\* the item is put in front of the queue
put_nowait_front(q, item) == <<item>> \o q

\* self.queue.put_nowait(item)
put_nowait(q, item) == Append(q, item)

\* the iterator returns on either marker
IterStep_marker(item) ==
    IF IsMarker(item) THEN "return"
    ELSE IF item # NoChunk THEN "yield"
    ELSE "skip"

\* what __aiter__ does with an item it got from the queue
IterStep(item) ==
    IF item = DONE THEN "return"
    ELSE IF item # NoChunk THEN "yield"
    ELSE "skip"

\* on_llm_new_token: the new value of final_answer_seen
SeenAfter(seen, chunk) ==
    seen \/ (chunk.kind = "tool_call" /\ chunk.name = "final_answer")

\* on_llm_end: the marker put on the queue
TurnMarker(seen) == IF seen THEN DONE ELSE STEP_END

(***************************************************************************)
(* invoke.stream: reconstruction of the requests of one model turn         *)
(***************************************************************************)
\* outputs[-1] += token
MergeLast(outs, token) ==
    [outs EXCEPT ![Len(outs)].arguments = outs[Len(outs)].arguments \o token.arguments]

\* The body of stream()'s loop for one token: the accumulator afterwards,
\* or the IndexError of outputs[-1] on the empty list.
Accumulate(outs, token) ==
    IF token.kind # "tool_call" THEN [raised |-> "", outputs |-> outs]
    ELSE IF token.id # 0 THEN [raised |-> "", outputs |-> Append(outs, token)]
    ELSE IF outs # <<>> THEN [raised |-> "", outputs |-> MergeLast(outs, token)]
    ELSE [raised |-> "IndexError", outputs |-> outs]

\* The AIMessage stream() returns for one accumulated request.  args is the
\* argument text accumulated from the deltas; for a final_answer request it
\* stands for the value of its answer argument (<<>> is the empty answer).
RequestMessage(x) ==
    [type |-> "AI", content |-> <<>>, tool_call_id |-> x.id,
     name |-> x.name, args |-> x.arguments]

\* tool_call.tool_calls[0]
ToolCallOf(tool_call) ==
    [name |-> tool_call.name, args |-> tool_call.args, id |-> tool_call.tool_call_id]

(***************************************************************************)
(* execute_tool                                                            *)
(***************************************************************************)
ToolMessage(content, id) == [type |-> "Tool", content |-> content, tool_call_id |-> id]

\* f"{tool_out}" of the tool's return value
ToolOutput(name, args) == <<"out", name>> \o args

\* final_answer only builds a dict from its arguments; the other tools may
\* raise (a missing argument, a failing collaborator)
MayRaise(name) == name # "final_answer"

\* an unresolved name is turned into a textual result
execute_tool_default(tool_call, tool_ok) ==
    IF tool_call.name \notin name2tool
    THEN [raised |-> "",
          message |-> <<ToolMessage(<<"ToolNotFound">>, tool_call.tool_call_id)>>]
    ELSE IF ~tool_ok /\ MayRaise(tool_call.name)
    THEN [raised |-> "ToolException", message |-> <<>>]
    ELSE [raised |-> "",
          message |-> <<ToolMessage(ToolOutput(tool_call.name, tool_call.args),
                                    tool_call.tool_call_id)>>]

\* The outcome of execute_tool(tool_call) when the tool, if resolved, runs
\* to completion (tool_ok) or raises: the exception that leaves
\* execute_tool, or the ToolMessage it returns.
execute_tool(tool_call, tool_ok) ==
    IF tool_call.name \notin name2tool
    THEN [raised |-> "KeyError", message |-> <<>>]
    ELSE IF ~tool_ok /\ MayRaise(tool_call.name)
    THEN [raised |-> "ToolException", message |-> <<>>]
    ELSE [raised |-> "",
          message |-> <<ToolMessage(ToolOutput(tool_call.name, tool_call.args),
                                    tool_call.tool_call_id)>>]

(***************************************************************************)
(* asyncio.gather and the scratchpad                                       *)
(***************************************************************************)
\* results listed in order of completion
Gather_completion(results, done_order) ==
    [i \in 1..Len(results) |-> results[done_order[i]][1]]

\* asyncio.gather: the results in the order of the awaitables
Gather(results, done_order) == [i \in 1..Len(results) |-> results[i][1]]

\* {tool_call.tool_call_id: tool_obs for tool_call, tool_obs in zip(...)}:
\* a later pair overwrites an earlier one with the same key
Id2ToolObs(calls, tool_obs) ==
    [id \in {calls[i].tool_call_id : i \in 1..Len(calls)} |->
        LET last == CHOOSE i \in 1..Len(calls) :
                        /\ calls[i].tool_call_id = id
                        /\ \A j \in 1..Len(calls) : calls[j].tool_call_id = id => j <= i
        IN  tool_obs[last]]

\* the entries appended to the scratchpad for one turn
RECURSIVE Pairs(_, _)
Pairs(calls, id2tool_obs) ==
    IF calls = <<>> THEN <<>>
    ELSE <<calls[1], id2tool_obs[calls[1].tool_call_id]>> \o Pairs(Tail(calls), id2tool_obs)

\* a final_answer request is not looked for
FirstFinal_none(calls) == 0

\* index of the first final_answer request of the turn, 0 if none
FirstFinal(calls) ==
    IF \E i \in 1..Len(calls) : calls[i].name = "final_answer"
    THEN CHOOSE i \in 1..Len(calls) :
             /\ calls[i].name = "final_answer"
             /\ \A j \in 1..(i - 1) : calls[j].name # "final_answer"
    ELSE 0

\* the guard of invoke's while loop
LoopContinues_le(c, n) == c <= n

LoopContinues(c, n) == c < n

(***************************************************************************)
(* The agent: one /invoke request at a time.  A request is accepted once   *)
(* the previous one has been served or its consumer has nothing left to    *)
(* wait for; its variables then describe the new request.  MaxTokens       *)
(* bounds the chunks the model streams over all requests.                  *)
(***************************************************************************)
Inputs == {<<"hello">>}

Init ==
    /\ k \in 0..MaxK
    /\ max_iterations \in 1..MaxN
    /\ memory_map = NoSessions
    /\ adds = 0
    /\ lastAdd = NoAdd
    /\ added = NoAdded
    /\ NoInvocation
    /\ NoRelay
    /\ NoCall
    /\ NoTasks

TaskEnded == pc \in {"returned", "raised"}

Quiescent ==
    \/ pc = "none"
    \/ cpc \in {"finished", "failed"}
    \/ TaskEnded /\ cpc \in {"check", "sleep"} /\ queue = <<>>

\* main.invoke and the head of token_generator: a fresh queue and relay,
\* and the invoke task is created
Request(s, content) ==
    /\ UNCHANGED <<fnVars, concVars>>
    /\ requests < MaxRequests
    /\ Quiescent
    /\ requests' = requests + 1
    /\ session_id' = s
    /\ input' = content
    /\ pc' = "created"
    /\ count' = 0
    /\ turns' = 0
    /\ outputs' = <<>>
    /\ tool_calls' = <<>>
    /\ slots' = <<>>
    /\ order' = <<>>
    /\ scratchpad' = <<>>
    /\ final_answer' = <<>>
    /\ final_answer_call' = <<>>
    /\ result' = <<>>
    /\ error' = ""
    /\ commits' = <<>>
    /\ queue' = <<>>
    /\ final_answer_seen' = FALSE
    /\ sent' = <<>>
    /\ cpc' = "check"
    /\ yielded' = <<>>
    /\ emitted' = <<>>
    /\ lastAdd' = NoAdd
    /\ UNCHANGED <<k, max_iterations, memory_map, adds, added, tokens>>

\* only the answer is committed
CommitMessages_answer(content, fa) ==
    <<AIMessage(IF Truthy(fa) THEN fa[1] ELSE NoAnswerFound)>>

\* the list invoke hands to memory.add_messages
CommitMessages(content, fa) ==
    <<HumanMessage(content), AIMessage(IF Truthy(fa) THEN fa[1] ELSE NoAnswerFound)>>

\* the exception of the summarisation is swallowed
Finish_ignore(map, fa, fac, llm_ok) ==
    LET messages == CommitMessages(input, fa)
        out == AddMessages(map[session_id], messages, llm_ok)
    IN  /\ memory_map' = SetMessages(map, session_id, out.messages)
        /\ lastAdd' = AddRecord(session_id, messages, out)
        /\ added' = Recorded(added, session_id, messages, out)
        /\ commits' = Append(commits, messages)
        /\ final_answer' = fa
        /\ final_answer_call' = fac
        /\ pc' = "returned"
        /\ error' = ""
        /\ result' = <<IF Truthy(fa) THEN fac[1] ELSE FallbackPayload>>

\* The tail of invoke, after the loop: the commit to the memory map and
\* the return (or the exception of a failed summarisation).
Finish(map, fa, fac, llm_ok) ==
    LET messages == CommitMessages(input, fa)
        out == AddMessages(map[session_id], messages, llm_ok)
    IN  /\ memory_map' = SetMessages(map, session_id, out.messages)
        /\ lastAdd' = AddRecord(session_id, messages, out)
        /\ added' = Recorded(added, session_id, messages, out)
        /\ commits' = Append(commits, messages)
        /\ final_answer' = fa
        /\ final_answer_call' = fac
        /\ IF out.raised
           THEN /\ pc' = "raised"
                /\ error' = "SummarizationFailure"
                /\ result' = <<>>
           ELSE /\ pc' = "returned"
                /\ error' = ""
                /\ result' = <<IF Truthy(fa) THEN fac[1] ELSE FallbackPayload>>

\* the input is stored when a turn starts
StartTurn_store(map) ==
    /\ pc' = "streaming"
    /\ turns' = turns + 1
    /\ outputs' = <<>>
    /\ memory_map' = SetMessages(map, session_id,
                                 Append(map[session_id].messages, HumanMessage(input)))
    /\ UNCHANGED <<lastAdd, added, commits, final_answer, final_answer_call,
                   result, error>>

\* The head of a loop iteration: stream() starts a model turn.
StartTurn(map) ==
    /\ pc' = "streaming"
    /\ turns' = turns + 1
    /\ outputs' = <<>>
    /\ memory_map' = map
    /\ UNCHANGED <<lastAdd, added, commits, final_answer, final_answer_call,
                   result, error>>

\* invoke, from its first line to its first suspension
InvokeBegin(llm_ok) ==
    /\ UNCHANGED <<fnVars, concVars>>
    /\ pc = "created"
    /\ LET map == get_memory(memory_map, session_id, k)
       IN  IF LoopContinues(count, max_iterations)
           THEN StartTurn(map)
           ELSE /\ Finish(map, <<>>, <<>>, llm_ok)
                /\ UNCHANGED <<turns, outputs>>
    /\ UNCHANGED <<k, max_iterations, adds, requests, session_id, input, count,
                   tokens, tool_calls, slots, order, scratchpad>>
    /\ UNCHANGED relayVars

\* The model streams one chunk: on_llm_new_token relays it, then the body
\* of stream()'s loop accumulates it.
LlmToken(token) ==
    /\ UNCHANGED <<fnVars, concVars>>
    /\ pc = "streaming"
    /\ tokens < MaxTokens
    /\ tokens' = tokens + 1
    /\ final_answer_seen' = SeenAfter(final_answer_seen, token)
    /\ queue' = put_nowait(queue, token)
    /\ sent' = Append(sent, token)
    /\ outputs' = Accumulate(outputs, token).outputs
    /\ IF Accumulate(outputs, token).raised # ""
       THEN /\ pc' = "raised"
            /\ error' = Accumulate(outputs, token).raised
       ELSE UNCHANGED <<pc, error>>
    /\ UNCHANGED memVars
    /\ UNCHANGED <<requests, session_id, input, count, turns, tool_calls, slots,
                   order, scratchpad, final_answer, final_answer_call, result,
                   commits>>
    /\ UNCHANGED <<cpc, yielded, emitted>>

\* The model's stream closes: on_llm_end enqueues the turn's marker,
\* stream() returns the requests and invoke starts one execute_tool task
\* for each.  With tool_choice="any" a turn that closes holds a request.
LlmEnd ==
    /\ UNCHANGED <<fnVars, concVars>>
    /\ pc = "streaming"
    /\ outputs # <<>>
    /\ queue' = put_nowait(queue, TurnMarker(final_answer_seen))
    /\ sent' = Append(sent, TurnMarker(final_answer_seen))
    /\ tool_calls' = [i \in 1..Len(outputs) |-> RequestMessage(outputs[i])]
    /\ slots' = [i \in 1..Len(outputs) |-> <<>>]
    /\ order' = <<>>
    /\ pc' = "executing"
    /\ UNCHANGED memVars
    /\ UNCHANGED <<requests, session_id, input, count, turns, tokens, outputs,
                   scratchpad, final_answer, final_answer_call, result, error,
                   commits>>
    /\ UNCHANGED <<final_answer_seen, cpc, yielded, emitted>>

\* The model's stream raises: on_llm_error is not overridden by the relay,
\* the exception leaves stream() and invoke.
LlmFail ==
    /\ UNCHANGED <<fnVars, concVars>>
    /\ pc = "streaming"
    /\ pc' = "raised"
    /\ error' = "LLMError"
    /\ UNCHANGED memVars
    /\ UNCHANGED <<requests, session_id, input, count, turns, tokens, outputs,
                   tool_calls, slots, order, scratchpad, final_answer,
                   final_answer_call, result, commits>>
    /\ UNCHANGED relayVars

\* One execute_tool task runs.  An exception is handed by gather to the
\* awaiting invoke, which has no handler.
ExecTool(i, tool_ok) ==
    /\ UNCHANGED <<fnVars, concVars>>
    /\ pc = "executing"
    /\ i \in 1..Len(slots)
    /\ slots[i] = <<>>
    /\ LET out == execute_tool(tool_calls[i], tool_ok)
       IN  IF out.raised # ""
           THEN /\ pc' = "raised"
                /\ error' = out.raised
                /\ UNCHANGED <<slots, order>>
           ELSE /\ slots' = [slots EXCEPT ![i] = out.message]
                /\ order' = Append(order, i)
                /\ UNCHANGED <<pc, error>>
    /\ UNCHANGED memVars
    /\ UNCHANGED <<requests, session_id, input, count, turns, tokens, outputs,
                   tool_calls, scratchpad, final_answer, final_answer_call,
                   result, commits>>
    /\ UNCHANGED relayVars

\* gather returns: the rest of the loop body, then either the next turn or
\* the tail of invoke.
GatherDone(llm_ok) ==
    /\ UNCHANGED <<fnVars, concVars>>
    /\ pc = "executing"
    /\ \A i \in 1..Len(slots) : slots[i] # <<>>
    /\ LET tool_obs == Gather(slots, order)
           id2tool_obs == Id2ToolObs(tool_calls, tool_obs)
           final == FirstFinal(tool_calls)
           fac == IF final > 0 THEN <<ToolCallOf(tool_calls[final])>> ELSE <<>>
           fa == IF final > 0 THEN <<fac[1].args>> ELSE <<>>
       IN  /\ scratchpad' = scratchpad \o Pairs(tool_calls, id2tool_obs)
           /\ count' = count + 1
           /\ IF final = 0 /\ LoopContinues(count + 1, max_iterations)
              THEN StartTurn(memory_map)
              ELSE /\ Finish(memory_map, fa, fac, llm_ok)
                   /\ UNCHANGED <<turns, outputs>>
    /\ UNCHANGED <<k, max_iterations, adds, requests, session_id, input, tokens,
                   tool_calls, slots, order>>
    /\ UNCHANGED relayVars

(***************************************************************************)
(* The consumer: QueueCallbackHandler.__aiter__ driven by token_generator  *)
(***************************************************************************)
\* one pass of the iterator's loop
ConsumerCheck ==
    /\ UNCHANGED <<fnVars, concVars>>
    /\ cpc = "check"
    /\ IF queue = <<>>
       THEN /\ cpc' = "sleep"
            /\ UNCHANGED <<queue, yielded>>
       ELSE /\ queue' = Tail(queue)
            /\ cpc' = IF IterStep(Head(queue)) = "return" THEN "ended" ELSE cpc
            /\ yielded' = IF IterStep(Head(queue)) = "yield"
                          THEN Append(yielded, Head(queue))
                          ELSE yielded
    /\ UNCHANGED memVars
    /\ UNCHANGED invVars
    /\ UNCHANGED <<final_answer_seen, sent, emitted>>

\* asyncio.sleep(0.1) is over
ConsumerWake ==
    /\ UNCHANGED <<fnVars, concVars>>
    /\ cpc = "sleep"
    /\ cpc' = "check"
    /\ UNCHANGED memVars
    /\ UNCHANGED invVars
    /\ UNCHANGED <<queue, final_answer_seen, sent, yielded, emitted>>

\* the (name, result) list of the scratchpad trace
ScratchpadSummary(pad) ==
    [i \in 1..(Len(pad) \div 2) |->
        [name |-> pad[2 * i - 1].name, result |-> pad[2 * i].content]]

\* token_generator after its loop: the join on the task and the trace
DriverJoin ==
    /\ UNCHANGED <<fnVars, concVars>>
    /\ cpc = "ended"
    /\ TaskEnded
    /\ IF pc = "returned"
       THEN /\ cpc' = "finished"
            /\ emitted' = <<ScratchpadSummary(scratchpad)>>
       ELSE /\ cpc' = "failed"
            /\ UNCHANGED emitted
    /\ UNCHANGED memVars
    /\ UNCHANGED invVars
    /\ UNCHANGED <<queue, final_answer_seen, sent, yielded>>

Next ==
    \/ \E s \in SessionIds, content \in Inputs : Request(s, content)
    \/ \E llm_ok \in BOOLEAN : InvokeBegin(llm_ok)
    \/ \E token \in StreamTokens(Len(scratchpad) \div 2 + Len(outputs) + 1,
                                  outputs # <<>>) :
           LlmToken(token)
    \/ LlmEnd
    \/ LlmFail
    \/ \E i \in 1..MaxTokens, tool_ok \in BOOLEAN : ExecTool(i, tool_ok)
    \/ \E llm_ok \in BOOLEAN : GatherDone(llm_ok)
    \/ ConsumerCheck
    \/ ConsumerWake
    \/ DriverJoin

Spec == Init /\ [][Next]_vars

\* The event loop runs every task that is ready, and a model stream that
\* has been opened ends or fails.  Neither a further request nor a further
\* chunk is owed by the environment.
FairSpec ==
    /\ Spec
    /\ WF_vars(\E llm_ok \in BOOLEAN : InvokeBegin(llm_ok))
    /\ WF_vars(LlmEnd \/ LlmFail)
    /\ WF_vars(\E i \in 1..MaxTokens, tool_ok \in BOOLEAN : ExecTool(i, tool_ok))
    /\ WF_vars(\E llm_ok \in BOOLEAN : GatherDone(llm_ok))
    /\ WF_vars(ConsumerCheck)
    /\ WF_vars(ConsumerWake)
    /\ WF_vars(DriverJoin)

(***************************************************************************)
(* The agent serving two sessions, one request at a time, with k = 1: a   *)
(* session's second commit finds a full memory and summarises.             *)
(***************************************************************************)
InitSessions ==
    /\ Init
    /\ k = 1

NextSessions ==
    \/ \E s \in AllSessions, content \in Inputs : Request(s, content)
    \/ \E llm_ok \in BOOLEAN : InvokeBegin(llm_ok)
    \/ \E token \in StreamTokens(Len(scratchpad) \div 2 + Len(outputs) + 1,
                                  outputs # <<>>) :
           LlmToken(token)
    \/ LlmEnd
    \/ LlmFail
    \/ \E i \in 1..MaxTokens, tool_ok \in BOOLEAN : ExecTool(i, tool_ok)
    \/ \E llm_ok \in BOOLEAN : GatherDone(llm_ok)
    \/ ConsumerCheck
    \/ ConsumerWake
    \/ DriverJoin

SpecSessions == InitSessions /\ [][NextSessions]_vars

(***************************************************************************)
(* The relay on its own: one QueueCallbackHandler and its consumer, the    *)
(* callbacks called by any sequence of model turns.  MaxTokens bounds the  *)
(* chunks and MaxN the turns.                                              *)
(***************************************************************************)
InitRelay ==
    /\ k = 0
    /\ max_iterations = 0
    /\ memory_map = NoSessions
    /\ adds = 0
    /\ lastAdd = NoAdd
    /\ added = NoAdded
    /\ NoInvocation
    /\ NoCall
    /\ NoTasks
    /\ queue = <<>>
    /\ final_answer_seen = FALSE
    /\ sent = <<>>
    /\ cpc = "check"
    /\ yielded = <<>>
    /\ emitted = <<>>

on_llm_new_token(chunk) ==
    /\ tokens < MaxTokens
    /\ tokens' = tokens + 1
    /\ final_answer_seen' = SeenAfter(final_answer_seen, chunk)
    /\ queue' = put_nowait(queue, chunk)
    /\ sent' = Append(sent, chunk)
    /\ UNCHANGED memVars
    /\ UNCHANGED <<requests, session_id, input, pc, count, turns, outputs,
                   tool_calls, slots, order, scratchpad, final_answer,
                   final_answer_call, result, error, commits>>
    /\ UNCHANGED <<cpc, yielded, emitted>>
    /\ UNCHANGED <<fnVars, concVars>>

on_llm_end ==
    /\ turns < MaxN
    /\ turns' = turns + 1
    /\ queue' = put_nowait(queue, TurnMarker(final_answer_seen))
    /\ sent' = Append(sent, TurnMarker(final_answer_seen))
    /\ UNCHANGED memVars
    /\ UNCHANGED <<requests, session_id, input, pc, count, tokens, outputs,
                   tool_calls, slots, order, scratchpad, final_answer,
                   final_answer_call, result, error, commits>>
    /\ UNCHANGED <<final_answer_seen, cpc, yielded, emitted>>
    /\ UNCHANGED <<fnVars, concVars>>

NextRelay ==
    \/ \E chunk \in StreamTokens(tokens + 1, TRUE) \cup {NoChunk} : on_llm_new_token(chunk)
    \/ on_llm_end
    \/ ConsumerCheck
    \/ ConsumerWake

SpecRelay == InitRelay /\ [][NextRelay]_vars

(***************************************************************************)
(* Functions called on their own: the arguments are drawn by the initial   *)
(* state, the one action is the call.  Nothing else of the process moves.  *)
(***************************************************************************)
Idle ==
    /\ k = 0
    /\ max_iterations = 0
    /\ memory_map = NoSessions
    /\ adds = 0
    /\ lastAdd = NoAdd
    /\ added = NoAdded
    /\ NoInvocation
    /\ NoRelay
    /\ NoTasks

(***************************************************************************)
(* execute_tool: the arguments handed to the tool.  Arguments are a dict,  *)
(* modelled as a function from keys to values.                             *)
(***************************************************************************)
CalledTools == {"retrieval_tool", "add", "final_answer"}

ArgKeys == {"query", "source"}

ArgValues == {"v", "docs"}

ToolArgs == UNION {[keys -> ArgValues] : keys \in SUBSET ArgKeys}

\* selected_source: None, the empty string, or the name of a source
SourceOverrides == {<<>>, <<"">>, <<"docs">>, <<"api">>}

\* truthiness of selected_source
Given(selected_source) == selected_source # <<>> /\ selected_source[1] # ""

\* the override is injected whatever the tool
InjectSource_any(tool_name, tool_args, selected_source) ==
    IF Given(selected_source)
    THEN [key \in (DOMAIN tool_args) \cup {"source"} |->
             IF key = "source" THEN selected_source[1] ELSE tool_args[key]]
    ELSE tool_args

\* tool_args after the conditional assignment tool_args["source"] = ...
InjectSource(tool_name, tool_args, selected_source) ==
    IF tool_name = "retrieval_tool" /\ Given(selected_source)
    THEN [key \in (DOMAIN tool_args) \cup {"source"} |->
             IF key = "source" THEN selected_source[1] ELSE tool_args[key]]
    ELSE tool_args

InitInject ==
    /\ Idle
    /\ fn_in \in {<<[name |-> name, args |-> args, selected_source |-> source]>> :
                     name \in CalledTools, args \in ToolArgs, source \in SourceOverrides}
    /\ fn_out = <<>>

\* execute_tool up to the call of the tool
CallExecuteTool ==
    /\ fn_in # <<>>
    /\ fn_out = <<>>
    /\ fn_out' = <<[passed |-> InjectSource(fn_in[1].name, fn_in[1].args,
                                            fn_in[1].selected_source)]>>
    /\ UNCHANGED <<memVars, invVars, relayVars, fn_in, concVars>>

SpecInject == InitInject /\ [][CallExecuteTool]_vars

(***************************************************************************)
(* evaluate_expression.  An expression is described by what compile and    *)
(* eval make of it: whether it compiles, the names of its top-level code   *)
(* object, the names that only occur in nested code objects (the body of   *)
(* a lambda or of a comprehension), and whether evaluating it and          *)
(* converting the value with float() gives a number or raises.             *)
(***************************************************************************)
Identifiers == {"sqrt", "abs", "__import__", "__class__"}

\* the public names of math, abs and round, among Identifiers
allowed_names == {"sqrt", "abs"}

Expressions ==
    [compiles : BOOLEAN, top : SUBSET Identifiers, nested : SUBSET Identifiers,
     value : {"number", "raises"}]

\* code.co_names of the compiled expression: the names of the top-level
\* code object only
co_names(expr) == expr.top

\* every identifier the expression references
Referenced(expr) == expr.top \cup expr.nested

\* safe_eval: whether eval was reached, and what is returned
safe_eval(expr) ==
    IF ~expr.compiles
    THEN [evaluated |-> FALSE, returned |-> "error"]
    ELSE IF \E name \in co_names(expr) : name \notin allowed_names
    THEN [evaluated |-> FALSE, returned |-> "error"]
    ELSE IF expr.value = "raises"
    THEN [evaluated |-> TRUE, returned |-> "error"]
    ELSE [evaluated |-> TRUE, returned |-> "number"]

InitEval ==
    /\ Idle
    /\ fn_in \in {<<expr>> : expr \in Expressions}
    /\ fn_out = <<>>

CallEvaluateExpression ==
    /\ fn_in # <<>>
    /\ fn_out = <<>>
    /\ fn_out' = <<safe_eval(fn_in[1])>>
    /\ UNCHANGED <<memVars, invVars, relayVars, fn_in, concVars>>

SpecEval == InitEval /\ [][CallEvaluateExpression]_vars

(***************************************************************************)
(* retrieval_tool, from the candidates the vector store returned.  A       *)
(* candidate is a text and a relevance score; scores are in tenths.        *)
(***************************************************************************)
\* K = 3: the number of chunks asked of the vector store
K == 3

\* THRESHOLD = 0.7, in tenths
THRESHOLD == 7

NoRelevantDocuments == <<"No relevant documents found.">>

NEXT_CHUNK == <<"\n\n---NEXT-CHUNK---\n\n">>

ChunkTexts == {<<>>, <<"a">>, <<"b">>}

Scores == {THRESHOLD - 1, THRESHOLD, THRESHOLD + 1}

Candidates == SeqsUpTo([text : ChunkTexts, score : Scores], K)

\* a candidate at the threshold is skipped too
Skipped_le(score) == score <= THRESHOLD

\* the test of the loop's continue
Skipped(score) == score < THRESHOLD

\* the loop over results: top_texts
RECURSIVE TopTexts(_)
TopTexts(results) ==
    IF results = <<>> THEN <<>>
    ELSE IF Skipped(results[1].score) THEN TopTexts(Tail(results))
    ELSE <<results[1].text>> \o TopTexts(Tail(results))

\* sep.join(parts)
RECURSIVE JoinWith(_, _)
JoinWith(sep, parts) ==
    IF parts = <<>> THEN <<>>
    ELSE IF Len(parts) = 1 THEN parts[1]
    ELSE parts[1] \o sep \o JoinWith(sep, Tail(parts))

\* what retrieval_tool returns for the results of the search
Retrieve(results) ==
    IF results = <<>> THEN NoRelevantDocuments
    ELSE IF TopTexts(results) = <<>> THEN NoRelevantDocuments
    ELSE JoinWith(NEXT_CHUNK, TopTexts(results))

InitRetrieve ==
    /\ Idle
    /\ fn_in \in {<<results>> : results \in Candidates}
    /\ fn_out = <<>>

CallRetrievalTool ==
    /\ fn_in # <<>>
    /\ fn_out = <<>>
    /\ fn_out' = <<Retrieve(fn_in[1])>>
    /\ UNCHANGED <<memVars, invVars, relayVars, fn_in, concVars>>

SpecRetrieve == InitRetrieve /\ [][CallRetrievalTool]_vars

(***************************************************************************)
(* stream(): the requests reconstructed from the tokens of one model turn, *)
(* for any sequence of at most MaxDeltas tokens.                           *)
(***************************************************************************)
MaxDeltas == 3

\* a chunk with tool-call data: with an id it starts a call and names the
\* tool, without one it only carries an argument fragment
Deltas ==
    {ContentToken}
        \cup {[kind |-> "tool_call", id |-> id, name |-> name, arguments |-> arguments] :
                 id \in 1..2, name \in {"add", "final_answer"}, arguments \in {<<>>, <<"x">>}}
        \cup {[kind |-> "tool_call", id |-> 0, name |-> "", arguments |-> arguments] :
                 arguments \in {<<>>, <<"x">>}}

\* stream() over the tokens of a turn: the exception that leaves it, or
\* the list of requests it returns
RECURSIVE StreamFrom(_, _)
StreamFrom(outs, tokens_left) ==
    IF tokens_left = <<>>
    THEN [raised |-> "", requests |-> [i \in 1..Len(outs) |-> RequestMessage(outs[i])]]
    ELSE IF Accumulate(outs, tokens_left[1]).raised # ""
    THEN [raised |-> Accumulate(outs, tokens_left[1]).raised, requests |-> <<>>]
    ELSE StreamFrom(Accumulate(outs, tokens_left[1]).outputs, Tail(tokens_left))

InitStream ==
    /\ Idle
    /\ fn_in \in {<<deltas>> : deltas \in SeqsUpTo(Deltas, MaxDeltas)}
    /\ fn_out = <<>>

CallStream ==
    /\ fn_in # <<>>
    /\ fn_out = <<>>
    /\ fn_out' = <<StreamFrom(<<>>, fn_in[1])>>
    /\ UNCHANGED <<memVars, invVars, relayVars, fn_in, concVars>>

SpecStream == InitStream /\ [][CallStream]_vars

(***************************************************************************)
(* Two invoke tasks of one session on the same event loop.  The memory's   *)
(* lists are objects: heap holds them by identity, self_messages is the    *)
(* one the memory's messages field refers to, and a task's chat_history    *)
(* is the one it read from that field when it started.  A task runs        *)
(* between two awaits without interruption; add_messages awaits nothing.   *)
(***************************************************************************)
\* the input of task t and the answer it ends with
TaskInput(t) == <<"in", t>>

TaskAnswer(t) == <<"out", t>>

\* add_messages on the list objects: pop(0) and extend change the list the
\* field refers to in place; the slice and the list with the summary are
\* new lists, bound to the field in their turn.
AddInPlace(objects, ref, bound, messages, llm_ok) ==
    LET cur == objects[ref]
        popped == IF Len(cur) > 0 /\ cur[1].type = "System" THEN Tail(cur) ELSE cur
        changed == [objects EXCEPT ![ref] = popped \o messages]
        out == AddMessages([messages |-> cur, k |-> bound], messages, llm_ok)
    IN  IF out.evicted = <<>>
        THEN [heap |-> changed, ref |-> ref, raised |-> FALSE]
        ELSE [heap |-> Append(changed, out.messages), ref |-> Len(changed) + 1,
              raised |-> out.raised]

Running(t) == tasks[t].pc \in {"thinking", "committing"}

Started == tasks["A"].runs + tasks["B"].runs

InitConc ==
    /\ k \in 0..MaxK
    /\ max_iterations \in 1..MaxN
    /\ memory_map = NoSessions
    /\ adds = 0
    /\ lastAdd = NoAdd
    /\ added = NoAdded
    /\ NoInvocation
    /\ NoRelay
    /\ NoCall
    /\ heap = <<<<>>>>
    /\ self_messages = 1
    /\ tasks = [t \in TaskIds |-> NoTask]

\* invoke up to its first await: chat_history = memory.messages
TaskInvoke(t) ==
    /\ ~Running(t)
    /\ Started < MaxRequests
    /\ tasks' = [u \in TaskIds |->
                    IF u = t
                    THEN [pc |-> "thinking", runs |-> tasks[t].runs + 1,
                          overlapped |-> \E v \in TaskIds \ {t} : Running(v),
                          chat_history |-> self_messages, count |-> 0,
                          handed |-> <<>>]
                    ELSE [tasks[u] EXCEPT !.overlapped = @ \/ Running(u)]]
    /\ UNCHANGED <<heap, self_messages>>
    /\ UNCHANGED <<memVars, invVars, relayVars, fnVars>>

\* One iteration of the loop: the prompt of the turn is built from what
\* chat_history holds now; the turn requests final_answer or does not.
TaskTurn(t, final) ==
    /\ tasks[t].pc = "thinking"
    /\ tasks' = [tasks EXCEPT
                    ![t].handed = <<[history |-> heap[tasks[t].chat_history],
                                     stored |-> heap[self_messages]]>>,
                    ![t].count = @ + 1,
                    ![t].pc = IF ~final /\ LoopContinues(tasks[t].count + 1, max_iterations)
                              THEN "thinking"
                              ELSE "committing"]
    /\ UNCHANGED <<heap, self_messages>>
    /\ UNCHANGED <<memVars, invVars, relayVars, fnVars>>

\* the commit after the loop
TaskCommit(t, llm_ok) ==
    /\ tasks[t].pc = "committing"
    /\ LET out == AddInPlace(heap, self_messages, k,
                             CommitMessages(TaskInput(t), <<TaskAnswer(t)>>), llm_ok)
       IN  /\ heap' = out.heap
           /\ self_messages' = out.ref
           /\ tasks' = [tasks EXCEPT ![t].pc = IF out.raised THEN "raised" ELSE "done"]
    /\ UNCHANGED <<memVars, invVars, relayVars, fnVars>>

NextConc ==
    \/ \E t \in TaskIds : TaskInvoke(t)
    \/ \E t \in TaskIds, final \in BOOLEAN : TaskTurn(t, final)
    \/ \E t \in TaskIds, llm_ok \in BOOLEAN : TaskCommit(t, llm_ok)

SpecConc == InitConc /\ [][NextConc]_vars

(***************************************************************************)
(* Properties                                                              *)
(***************************************************************************)
Markers(items) == SelectSeq(items, IsMarker)

DoneSent == \E i \in 1..Len(sent) : sent[i] = DONE

ConsumerEnded == cpc \in {"ended", "finished", "failed"}

\* the entries of the current tool_calls are in the scratchpad
TurnRecorded ==
    /\ count >= 1
    /\ \/ pc \in {"streaming", "returned"}
       \/ error \in {"SummarizationFailure", "LLMError", "IndexError"}

Unresolved(i) == tool_calls[i].name \notin name2tool

\* C1 (SpecMem): after every add_messages call the memory holds at most k
\* messages that are not the summary; with k = 0 it holds none.
C1_TailWithinK ==
    \A s \in DOMAIN memory_map :
        Len(NonSummary(memory_map[s].messages)) <= memory_map[s].k

\* C2: an invocation starts at most max_iterations model turns, and when it
\* returns without any final_answer request in its turns the payload is
\* the fallback.
C2_BoundedTurns ==
    /\ turns <= max_iterations
    /\ count <= max_iterations
    /\ (pc = "returned" /\ \A i \in 1..Len(scratchpad) :
                               scratchpad[i].type = "AI" => scratchpad[i].name # "final_answer")
           => result = <<FallbackPayload>>

C2_Witness ==
    /\ pc = "returned"
    /\ max_iterations >= 2
    /\ turns = max_iterations
    /\ scratchpad # <<>>
    /\ result = <<FallbackPayload>>

\* C3: an invocation that has returned, with an answer or with the
\* fallback, has had DONE enqueued on its relay.
C3_ReturnedHasDone == pc = "returned" => DoneSent

\* C4: one terminal marker has been enqueued for every model turn that was
\* started and is over, a turn whose stream failed included.
C4_OneMarkerPerTurn ==
    Len(Markers(sent)) = IF pc = "streaming" THEN turns - 1 ELSE turns

\* C5 (FairSpec): once the invocation has raised, the consumer's sequence
\* eventually terminates.
C5_ConsumerNotStarved == (pc = "raised") ~> ConsumerEnded

\* C6 (SpecMem): an add_messages call invokes the summarisation model once
\* if it evicts a message and not at all if it evicts none.
C6_OneSummaryPerEviction ==
    lastAdd.llm_calls = IF lastAdd.evicted # <<>> THEN 1 ELSE 0

C6_Witness ==
    /\ Len(lastAdd.evicted) >= 2
    /\ lastAdd.llm_calls = 1

\* C7: the scratchpad is a sequence of (request, result) pairs, each result
\* carrying its request's id and that request's output, and the pairs of
\* a turn follow the order of the turn's requests, whatever order the
\* executions completed in.
C7_PairsInRequestOrder ==
    /\ \A j \in 1..Len(scratchpad) :
           IF j % 2 = 1
           THEN /\ scratchpad[j].type = "AI"
                /\ j < Len(scratchpad)
           ELSE /\ scratchpad[j].type = "Tool"
                /\ scratchpad[j].tool_call_id = scratchpad[j - 1].tool_call_id
                /\ scratchpad[j].content =
                       ToolOutput(scratchpad[j - 1].name, scratchpad[j - 1].args)
    /\ TurnRecorded =>
           /\ Len(scratchpad) >= 2 * Len(tool_calls)
           /\ \A i \in 1..Len(tool_calls) :
                  scratchpad[Len(scratchpad) - 2 * Len(tool_calls) + 2 * i - 1] = tool_calls[i]

C7_Witness ==
    /\ TurnRecorded
    /\ Len(tool_calls) = 2
    /\ tool_calls[1].name # tool_calls[2].name
    /\ order = <<2, 1>>
    /\ Len(scratchpad) = 4

\* C8: a resolved tool that raises does not make execute_tool raise: no
\* tool exception ever leaves execute_tool and invoke.
C8_ToolErrorIsResult == error # "ToolException"

\* C9: a request whose name is not in the registry never gets a result and
\* is never recorded in the scratchpad; the invocation does not get past
\* the turn that made it, and running it raises KeyError out of invoke.
C9_UnresolvedPropagates ==
    /\ \A j \in 1..Len(scratchpad) :
           scratchpad[j].type = "AI" => scratchpad[j].name \in name2tool
    /\ \A i \in 1..Len(tool_calls) :
           Unresolved(i) =>
               /\ pc \in {"executing", "raised"}
               /\ slots[i] = <<>>
               /\ result = <<>>
               /\ commits = <<>>
    /\ error = "KeyError" =>
           /\ pc = "raised"
           /\ \E i \in 1..Len(tool_calls) : Unresolved(i)

C9_Witness ==
    /\ pc = "raised"
    /\ error = "KeyError"
    /\ Len(tool_calls) = 2
    /\ order # <<>>

\* C10: an invocation commits to the memory once, after its loop, the pair
\* (Human message with the input, AI message with the answer or the
\* fallback text), and no tool request or tool result is ever stored in a
\* memory.
C10_CommitsOnePair ==
    /\ Len(commits) <= 1
    /\ pc = "returned" => Len(commits) = 1
    /\ \A c \in 1..Len(commits) :
           /\ Len(commits[c]) = 2
           /\ commits[c][1] = HumanMessage(input)
           /\ commits[c][2].type = "AI"
           /\ commits[c][2].content =
                  IF final_answer_call # <<>> /\ final_answer_call[1].args # <<>>
                  THEN final_answer_call[1].args
                  ELSE NoAnswerFound
    /\ \A s \in DOMAIN memory_map :
           \A i \in 1..Len(memory_map[s].messages) :
               /\ memory_map[s].messages[i].type \in {"System", "Human", "AI"}
               /\ DOMAIN memory_map[s].messages[i] = {"type", "content"}

C10_Witness ==
    /\ pc = "returned"
    /\ scratchpad # <<>>
    /\ final_answer_call # <<>>
    /\ commits = <<<<HumanMessage(input), AIMessage(<<"x">>)>>>>
    /\ memory_map[session_id].messages # <<>>

\* the stored list starts with a summary
HasSummary(messages) == messages # <<>> /\ messages[1].type = "System"

\* the step is an add_messages call on the memory of session s
IsAddOn(s) == adds' = adds + 1 /\ lastAdd'.session = s

\* the words of the contents of a list of messages, in order
RECURSIVE Words(_)
Words(messages) ==
    IF messages = <<>> THEN <<>>
    ELSE messages[1].content \o Words(Tail(messages))

Occurrences(x, text) == Cardinality({i \in DOMAIN text : text[i] = x})

\* every word handed to the memory of s since its last clear is still in
\* what the memory stores, in the tail or in the text of the summary
Covered(s) ==
    LET given == Words(added[s].messages)
        stored == Words(memory_map[s].messages)
    IN  \A i \in DOMAIN given :
            Occurrences(given[i], given) <= Occurrences(given[i], stored)

\* C11 (SpecMem): an add_messages(new) call on a memory whose non-summary
\* tail is T leaves as non-summary messages exactly the newest
\* min(k, |T| + |new|) elements of T \o new, in order, and evicts exactly
\* the older ones, in order.
C11_KeepsNewest ==
    [][\A s \in DOMAIN memory_map :
           IsAddOn(s) =>
               LET all == NonSummary(memory_map[s].messages) \o lastAdd'.new
                   n == Len(all)
                   keep == IF memory_map[s].k < n THEN memory_map[s].k ELSE n
               IN  /\ NonSummary(memory_map'[s].messages) = SubSeq(all, n - keep + 1, n)
                   /\ lastAdd'.evicted = SubSeq(all, 1, n - keep)]_vars

\* C12 (SpecMem): an add_messages call that evicts nothing leaves the
\* summary that was stored before it stored, first and unchanged.
C12_SummaryKept ==
    [][\A s \in DOMAIN memory_map :
           (IsAddOn(s) /\ lastAdd'.evicted = <<>> /\ HasSummary(memory_map[s].messages)) =>
               /\ memory_map'[s].messages # <<>>
               /\ memory_map'[s].messages[1] = memory_map[s].messages[1]]_vars

\* C13 (SpecMem): as long as every add_messages call since the last clear
\* has returned, every message added since then is in the retained tail
\* or in the text the current summary was produced from.
C13_NothingDropped ==
    \A s \in DOMAIN memory_map : ~added[s].failed => Covered(s)

\* C14: a memory driven by the agent loop never stores more than one
\* System message, and a System message it stores is the first one.
C14_OneSummaryFirst ==
    \A s \in DOMAIN memory_map :
        LET messages == memory_map[s].messages
        IN  /\ Cardinality({i \in DOMAIN messages : messages[i].type = "System"}) <= 1
            /\ \A i \in DOMAIN messages : messages[i].type = "System" => i = 1

\* the second commit of a session found a summary and replaced it
C14_Witness ==
    /\ pc = "returned"
    /\ k = 1
    /\ Len(added[session_id].messages) = 4
    /\ ~added[session_id].failed
    /\ HasSummary(memory_map[session_id].messages)
    /\ Len(memory_map[session_id].messages) = 2

\* an item is a tool-call delta that names final_answer
IsFinalDelta(item) == item.kind = "tool_call" /\ item.name = "final_answer"

\* the items enqueued during the turn that the marker at position i ends
TurnOf(i) ==
    LET before == {j \in 1..(i - 1) : IsMarker(sent[j])}
        prev == IF before = {} THEN 0
                ELSE CHOOSE j \in before : \A j2 \in before : j2 <= j
    IN  SubSeq(sent, prev + 1, i - 1)

\* C15 (SpecRelay): the marker enqueued at the end of a turn is DONE if a
\* final_answer delta was enqueued during that same turn and STEP_END
\* otherwise, whatever the earlier turns on the relay held.
C15_MarkerOfTheTurn ==
    \A i \in DOMAIN sent :
        IsMarker(sent[i]) =>
            sent[i] = IF \E j \in DOMAIN TurnOf(i) : IsFinalDelta(TurnOf(i)[j])
                      THEN DONE
                      ELSE STEP_END

\* the number of items the consumer has taken from the queue, and the items
Taken == Len(sent) - Len(queue)

Dequeued == SubSeq(sent, 1, Taken)

\* C16 (SpecRelay): the consumer has yielded every item it dequeued that is
\* neither empty nor DONE, STEP_END included, it has never yielded DONE,
\* and it has ended exactly if the last item it dequeued is DONE; it
\* dequeues nothing after DONE.
C16_YieldsUntilDone ==
    /\ yielded = SelectSeq(Dequeued, LAMBDA item : item # DONE /\ item # NoChunk)
    /\ \A i \in DOMAIN yielded : yielded[i] # DONE
    /\ cpc = "ended" <=> (Taken > 0 /\ Dequeued[Taken] = DONE)
    /\ \A i \in 1..(Taken - 1) : Dequeued[i] # DONE

\* an empty item was skipped, STEP_END was yielded and followed by a
\* token, and DONE ended the sequence
C16_Witness ==
    /\ cpc = "ended"
    /\ Taken = 4
    /\ Dequeued[1] = NoChunk
    /\ Len(yielded) = 2
    /\ yielded[1] = STEP_END
    /\ IsFinalDelta(yielded[2])

\* C17: the consumer is handed the items in the order they were enqueued:
\* what it has yielded is the head of what was sent, item by item, so the
\* tokens of a turn come in order, then the turn's marker, then the tokens
\* of the next turn; what it has not taken yet waits in the same order.
C17_FifoOrder ==
    /\ Len(yielded) <= Taken
    /\ \A i \in DOMAIN yielded : yielded[i] = sent[i]
    /\ queue = SubSeq(sent, Taken + 1, Len(sent))

C17_Witness ==
    /\ turns = 2
    /\ Len(yielded) = 3
    /\ yielded[1].kind = "tool_call"
    /\ yielded[2] = STEP_END
    /\ IsFinalDelta(yielded[3])
    /\ cpc = "ended"

\* C18: an add_messages call whose summarisation call failed has raised,
\* and the invocation that made it has raised that error and returned no
\* payload; an invocation that returned after an evicting add_messages
\* call has the summary of that call stored.
C18_SummaryFailureRaises ==
    /\ lastAdd.raised =>
           /\ lastAdd.evicted # <<>>
           /\ pc = "raised"
           /\ error = "SummarizationFailure"
           /\ result = <<>>
    /\ (pc = "returned" /\ lastAdd.evicted # <<>>) =>
           /\ ~lastAdd.raised
           /\ HasSummary(memory_map[session_id].messages)

C18_Witness ==
    /\ lastAdd.raised
    /\ lastAdd.llm_calls = 1
    /\ pc = "raised"
    /\ error = "SummarizationFailure"
    /\ final_answer_call # <<>>

\* C19 (SpecInject): the arguments execute_tool passes to the tool differ
\* from the request's arguments only if the request names retrieval_tool
\* and a source override is given, and then only in the key source, which
\* holds the override.
C19_InjectsOnlyForRetrieval ==
    fn_out # <<>> =>
        LET call == fn_in[1]
            passed == fn_out[1].passed
        IN  /\ passed # call.args =>
                   /\ call.name = "retrieval_tool"
                   /\ call.selected_source # <<>>
                   /\ passed["source"] = call.selected_source[1]
            /\ DOMAIN call.args \subseteq DOMAIN passed
            /\ DOMAIN passed \subseteq (DOMAIN call.args) \cup {"source"}
            /\ \A key \in (DOMAIN call.args) \ {"source"} : passed[key] = call.args[key]

\* a retrieval request that carried its own source got the override
C19_Witness ==
    /\ fn_out # <<>>
    /\ fn_in[1].name = "retrieval_tool"
    /\ fn_in[1].selected_source = <<"api">>
    /\ DOMAIN fn_in[1].args = {"query", "source"}
    /\ fn_out[1].passed["source"] = "api"
    /\ fn_out[1].passed["query"] = fn_in[1].args["query"]

\* C20 (SpecEval): for an expression that references an identifier outside
\* the allowed names, evaluate_expression returns an error string without
\* having reached the evaluation.
C20_RejectsForeignNames ==
    (fn_out # <<>> /\ \E name \in Referenced(fn_in[1]) : name \notin allowed_names) =>
        /\ fn_out[1].returned = "error"
        /\ ~fn_out[1].evaluated

\* the texts of the candidates of results that reach the threshold
Relevant(results) ==
    LET reaching == SelectSeq(results, LAMBDA c : c.score >= THRESHOLD)
    IN  [i \in 1..Len(reaching) |-> reaching[i].text]

\* C21 (SpecRetrieve): retrieval_tool returns the texts of exactly the
\* candidates whose score is at least the threshold, in candidate order,
\* and the sentinel text if there is no such candidate.
C21_ReturnsRelevantChunks ==
    fn_out # <<>> =>
        IF Relevant(fn_in[1]) = <<>>
        THEN fn_out[1] = NoRelevantDocuments
        ELSE fn_out[1] = JoinWith(NEXT_CHUNK, Relevant(fn_in[1]))

\* a candidate below the threshold between two that reach it, one of
\* them exactly at the threshold
C21_Witness ==
    /\ fn_out # <<>>
    /\ Len(fn_in[1]) = 3
    /\ fn_in[1][1].score = THRESHOLD
    /\ fn_in[1][2].score < THRESHOLD
    /\ fn_in[1][3].score > THRESHOLD
    /\ fn_in[1][1].text # fn_in[1][3].text
    /\ fn_out[1] = fn_in[1][1].text \o NEXT_CHUNK \o fn_in[1][3].text

\* the scratchpad holds a final_answer request
FinalRequested ==
    \E j \in DOMAIN scratchpad :
        scratchpad[j].type = "AI" /\ scratchpad[j].name = "final_answer"

\* C22: once a turn's requests include a final_answer request no further
\* turn is started; an invocation that returns after it returns that
\* request and commits its answer as the AI message, whatever the answer
\* text; the fallback is returned only after max_iterations turns without
\* a final_answer request.
C22_FinalAnswerEndsLoop ==
    /\ FinalRequested => pc \in {"returned", "raised"}
    /\ (pc = "returned" /\ FinalRequested) =>
           /\ final_answer_call # <<>>
           /\ result = final_answer_call
           /\ commits = <<<<HumanMessage(input), AIMessage(final_answer_call[1].args)>>>>
    /\ (pc = "returned" /\ result = <<FallbackPayload>>) =>
           /\ ~FinalRequested
           /\ count = max_iterations

\* the positions of the deltas that bear an id, in order
Starts(deltas) ==
    SelectSeq([i \in 1..Len(deltas) |-> i],
              LAMBDA i : deltas[i].kind = "tool_call" /\ deltas[i].id # 0)

\* the argument fragments of a run of tokens, concatenated
RECURSIVE Fragments(_)
Fragments(deltas) ==
    IF deltas = <<>> THEN <<>>
    ELSE (IF deltas[1].kind = "tool_call" THEN deltas[1].arguments ELSE <<>>)
             \o Fragments(Tail(deltas))

\* one request per id-bearing delta, holding the fragments from that delta
\* up to the next id-bearing one
Reconstructed(deltas) ==
    LET st == Starts(deltas)
    IN  [n \in 1..Len(st) |->
            LET last == IF n < Len(st) THEN st[n + 1] - 1 ELSE Len(deltas)
            IN  [type |-> "AI", content |-> <<>>, tool_call_id |-> deltas[st[n]].id,
                 name |-> deltas[st[n]].name,
                 args |-> Fragments(SubSeq(deltas, st[n], last))]]

\* C23 (SpecStream): for any sequence of tokens of a turn, stream()
\* returns one request per id-bearing delta, in order, each with the
\* fragments of its own delta and of the id-less deltas that follow it
\* before the next id-bearing one.
C23_RequestsReconstructed ==
    fn_out # <<>> =>
        /\ fn_out[1].raised = ""
        /\ fn_out[1].requests = Reconstructed(fn_in[1])

\* the messages stored for session s, none if it has no memory yet
MessagesOf(map, s) == IF s \in DOMAIN map THEN map[s].messages ELSE <<>>

\* C24: a step of an invocation that changes what a session's memory
\* stores is the invocation's one commit: it is the first add_messages
\* call of the invocation, on its own session, and it ends the invocation
\* with the scratchpad it leaves.
C24_OnlyTheCommitMutates ==
    [][\A s \in SessionIds :
           MessagesOf(memory_map', s) # MessagesOf(memory_map, s) =>
               /\ s = session_id
               /\ commits = <<>>
               /\ Len(commits') = 1
               /\ pc \in {"created", "executing"}
               /\ pc' \in {"returned", "raised"}]_vars

\* two turns ran, then the commit
C24_Witness ==
    /\ pc = "returned"
    /\ turns = 2
    /\ Len(scratchpad) = 4
    /\ Len(commits) = 1
    /\ memory_map[session_id].messages # <<>>

\* C25 (SpecSessions): a session's memory, once created, stays in the map;
\* a memory enters the map empty, for the session of the invocation that
\* starts; no step changes the memory of a session other than the current
\* one; and the start of an invocation leaves the memory its session
\* already has as the earlier invocation committed it.
C25_OneMemoryPerSession ==
    [][/\ DOMAIN memory_map \subseteq DOMAIN memory_map'
       /\ \A s \in (DOMAIN memory_map') \ (DOMAIN memory_map) :
              /\ s = session_id
              /\ pc = "created"
              /\ memory_map'[s] = NewMemory(k)
       /\ \A s \in DOMAIN memory_map :
              /\ s # session_id' => memory_map'[s] = memory_map[s]
              /\ pc = "created" => memory_map'[s] = memory_map[s]]_vars

\* the second session is served while the first one's memory keeps what
\* was committed to it
C25_Witness ==
    /\ session_id = "s2"
    /\ pc = "returned"
    /\ DOMAIN memory_map = {"s1", "s2"}
    /\ memory_map["s1"].messages # <<>>
    /\ Words(memory_map["s1"].messages) # Words(memory_map["s2"].messages)

\* C28 (SpecMem): an add_messages call whose summarisation call raised
\* leaves the memory as it was before the call.
C28_FailedSummaryKeepsMemory ==
    [][\A s \in DOMAIN memory_map :
           (IsAddOn(s) /\ lastAdd'.raised) => memory_map'[s] = memory_map[s]]_vars

\* C29: DONE is enqueued at most once in an invocation and is the last
\* item the invocation enqueues, and a consumer whose sequence has ended
\* has left nothing in the queue.
C29_NothingAfterDone ==
    /\ \A i \in DOMAIN sent : sent[i] = DONE => i = Len(sent)
    /\ ConsumerEnded => queue = <<>>

\* the final_answer request came in the second turn, with another request
\* after it in that turn, and the consumer has ended
C29_Witness ==
    /\ ConsumerEnded
    /\ DoneSent
    /\ Len(sent) = 3
    /\ IsFinalDelta(sent[1])
    /\ sent[2].kind = "tool_call"
    /\ Len(yielded) = 2

\* in a stored list every Human message is directly followed by the AI
\* message of the same invocation, and every AI message that is not at the
\* head of the tail directly follows its Human message
PairsAdjacent(messages) ==
    \A i \in DOMAIN messages :
        /\ messages[i].type = "Human" =>
               /\ i < Len(messages)
               /\ messages[i + 1].type = "AI"
               /\ messages[i + 1].content[2] = messages[i].content[2]
        /\ (messages[i].type = "AI" /\ i > 1 /\ messages[i - 1].type # "System") =>
               /\ messages[i - 1].type = "Human"
               /\ messages[i - 1].content[2] = messages[i].content[2]

\* C26 (SpecConc): when two invocations of a session have run at the same
\* time and both have committed, the memory holds each invocation's Human
\* and AI message next to each other and at most k messages that are not
\* the summary.
C26_CommitsAtomic ==
    (\A t \in TaskIds : tasks[t].overlapped /\ tasks[t].pc = "done") =>
        /\ PairsAdjacent(heap[self_messages])
        /\ Len(NonSummary(heap[self_messages])) <= k

\* C27 (SpecConc), for k >= 1: the history a model turn is handed has at
\* most k messages that are not a summary, a summary only as its first
\* message, and the summary first if the memory stores one at that time.
C27_HandedHistoryBounded ==
    k >= 1 =>
        \A t \in TaskIds :
            tasks[t].handed # <<>> =>
                LET history == tasks[t].handed[1].history
                IN  /\ Len(NonSummary(history)) <= k
                    /\ \A i \in DOMAIN history : history[i].type = "System" => i = 1
                    /\ HasSummary(tasks[t].handed[1].stored) => HasSummary(history)

====
